---------------------------- MODULE Spec2Model ----------------------------
(***************************************************************************)
(* The signal viewport of PulseView (sigviewport.cpp): the scale/offset    *)
(* transform, wheel zoom anchored at a pixel, drag-to-pan, and the ruler's *)
(* tick planner.                                                           *)
(*                                                                         *)
(* Numbers.  The values of the C++ `double`s of the viewport (_scale,       *)
(* _offset, _mouse_down_offset and the locals of paint_ruler) are numbers  *)
(* of the form  m * 2^e2 * 3^e3 * 5^e5  (m an integer of any size), which  *)
(* hold every double, 10^k and (3/2)^k exactly.                            *)
(*                                                                         *)
(* The handlers of the transform (zoom, press, move) only add and          *)
(* multiply; they are modelled in the arithmetic of the reals, steps being *)
(* whole, and the claims about them are the identities doubles satisfy up  *)
(* to rounding.  paint_ruler is modelled in IEEE double arithmetic, every  *)
(* operation rounded to the nearest double: there the rounded values       *)
(* decide the control flow.                                                *)
(***************************************************************************)
EXTENDS Integers, Sequences, FiniteSets, TLC

(***************************************************************************)
(* Natural numbers of any size: sequences of limbs, least significant      *)
(* first, no zero top limb; 0 is << >>.                                    *)
(***************************************************************************)
Limb == 100 * 100

RECURSIVE NatOfInt(_)
NatOfInt(n) == IF n = 0 THEN << >> ELSE <<n % Limb>> \o NatOfInt(n \div Limb)

RECURSIVE NatStrip(_)
NatStrip(a) ==
    IF a = << >> THEN << >>
    ELSE IF a[Len(a)] = 0 THEN NatStrip(SubSeq(a, 1, Len(a) - 1))
    ELSE a

RECURSIVE NatCmpFrom(_, _, _)
NatCmpFrom(a, b, i) ==
    IF i = 0 THEN 0
    ELSE IF a[i] < b[i] THEN -1
    ELSE IF a[i] > b[i] THEN 1
    ELSE NatCmpFrom(a, b, i - 1)

NatCmp(a, b) ==
    IF Len(a) < Len(b) THEN -1
    ELSE IF Len(a) > Len(b) THEN 1
    ELSE NatCmpFrom(a, b, Len(a))

RECURSIVE NatAddC(_, _, _, _)
NatAddC(a, b, i, c) ==
    IF i > Len(a) /\ i > Len(b)
    THEN (IF c = 0 THEN << >> ELSE <<c>>)
    ELSE LET s == (IF i <= Len(a) THEN a[i] ELSE 0)
                  + (IF i <= Len(b) THEN b[i] ELSE 0) + c
         IN  <<s % Limb>> \o NatAddC(a, b, i + 1, s \div Limb)

NatAdd(a, b) == NatAddC(a, b, 1, 0)

RECURSIVE NatSubB(_, _, _, _)
NatSubB(a, b, i, c) ==
    IF i > Len(a) THEN << >>
    ELSE LET s == a[i] - (IF i <= Len(b) THEN b[i] ELSE 0) - c
         IN  IF s < 0 THEN <<s + Limb>> \o NatSubB(a, b, i + 1, 1)
             ELSE <<s>> \o NatSubB(a, b, i + 1, 0)

\* a - b, for a >= b
NatSub(a, b) == NatStrip(NatSubB(a, b, 1, 0))

RECURSIVE NatMulC(_, _, _, _)
NatMulC(a, k, i, c) ==
    IF i > Len(a) THEN NatOfInt(c)
    ELSE LET s == a[i] * k + c
         IN  <<s % Limb>> \o NatMulC(a, k, i + 1, s \div Limb)

\* a * k, for 0 <= k <= Limb
NatMulSmall(a, k) == IF k = 0 THEN << >> ELSE NatMulC(a, k, 1, 0)

RECURSIVE NatMul(_, _)
NatMul(a, b) ==
    IF a = << >> \/ b = << >> THEN << >>
    ELSE LET rest == NatMul(a, Tail(b))
         IN  NatAdd(NatMulSmall(a, b[1]),
                    IF rest = << >> THEN << >> ELSE <<0>> \o rest)

RECURSIVE NatRem(_, _, _)
\* the remainder of (limbs i..Len(a) of a) by k, for 0 < k <= Limb
NatRem(a, k, i) ==
    IF i > Len(a) THEN 0 ELSE (NatRem(a, k, i + 1) * Limb + a[i]) % k

NatModSmall(a, k) == NatRem(a, k, 1)

RECURSIVE NatDivD(_, _, _, _)
\* quotient limbs i..1 (i descending), r the remainder carried from above
NatDivD(a, k, i, r) ==
    IF i = 0 THEN << >>
    ELSE LET cur == r * Limb + a[i]
         IN  NatDivD(a, k, i - 1, cur % k) \o <<cur \div k>>

\* floor(a / k), for 0 < k <= Limb
NatDivSmall(a, k) == NatStrip(NatDivD(a, k, Len(a), 0))

IntPow(p, k) == p ^ k

\* the largest k with p^k <= Limb, for p in {2, 3, 5}
ChunkExp(p) == IF p = 2 THEN 13 ELSE IF p = 3 THEN 8 ELSE 5

RECURSIVE NatMulPow(_, _, _)
\* a * p^k
NatMulPow(a, p, k) ==
    IF k <= 0 \/ a = << >> THEN a
    ELSE LET c == IF k >= ChunkExp(p) THEN ChunkExp(p) ELSE k
         IN  NatMulPow(NatMulSmall(a, IntPow(p, c)), p, k - c)

RECURSIVE NatFloorDivPow(_, _, _)
\* floor(a / p^k)
NatFloorDivPow(a, p, k) ==
    IF k <= 0 \/ a = << >> THEN a
    ELSE LET c == IF k >= ChunkExp(p) THEN ChunkExp(p) ELSE k
         IN  NatFloorDivPow(NatDivSmall(a, IntPow(p, c)), p, k - c)

RECURSIVE NatCeilDivPow(_, _, _)
\* ceil(a / p^k)
NatCeilDivPow(a, p, k) ==
    IF k <= 0 \/ a = << >> THEN a
    ELSE LET c == IF k >= ChunkExp(p) THEN ChunkExp(p) ELSE k
             d == IntPow(p, c)
         IN  NatCeilDivPow(NatDivSmall(NatAdd(a, NatOfInt(d - 1)), d), p, k - c)

RECURSIVE NatToInt(_)
NatToInt(a) == IF a = << >> THEN 0 ELSE a[1] + Limb * NatToInt(Tail(a))

(***************************************************************************)
(* The numbers  (-1)^neg * mag * 2^e2 * 3^e3 * 5^e5, in normal form: mag   *)
(* has no factor 2, 3 or 5, and zero is Zero.  Equal numbers are equal     *)
(* records.                                                                *)
(***************************************************************************)
Zero == [neg |-> FALSE, mag |-> << >>, e2 |-> 0, e3 |-> 0, e5 |-> 0]

RECURSIVE StripPow(_, _, _)
\* x with the factors q = p^j of its mantissa moved into the exponent of p
StripPow(x, p, j) ==
    IF NatModSmall(x.mag, IntPow(p, j)) # 0 THEN x
    ELSE LET m == NatDivSmall(x.mag, IntPow(p, j))
         IN  StripPow(IF p = 2 THEN [x EXCEPT !.mag = m, !.e2 = x.e2 + j]
                      ELSE IF p = 3 THEN [x EXCEPT !.mag = m, !.e3 = x.e3 + j]
                      ELSE [x EXCEPT !.mag = m, !.e5 = x.e5 + j],
                      p, j)

\* all factors p out of the mantissa: by whole chunks first, then one by one
StripAll(x, p) == StripPow(StripPow(x, p, ChunkExp(p)), p, 1)

Norm(x) ==
    IF x.mag = << >> THEN Zero
    ELSE StripAll(StripAll(StripAll(x, 2), 3), 5)

\* the integer n
IntV(n) ==
    Norm([neg |-> n < 0, mag |-> NatOfInt(IF n < 0 THEN -n ELSE n),
          e2 |-> 0, e3 |-> 0, e5 |-> 0])

\* 2^a * 3^b * 5^c
Unit(a, b, c) == [neg |-> FALSE, mag |-> <<1>>, e2 |-> a, e3 |-> b, e5 |-> c]

\* 10^k
Pow10(k) == Unit(k, 0, k)

IsZero(x) == x.mag = << >>

Neg(x) == IF IsZero(x) THEN x ELSE [x EXCEPT !.neg = ~x.neg]

Min2(i, j) == IF i < j THEN i ELSE j

\* |x| counted in units of 2^a * 3^b * 5^c, for a <= x.e2, b <= x.e3, c <= x.e5
MagIn(x, a, b, c) ==
    NatMulPow(NatMulPow(NatMulPow(x.mag, 2, x.e2 - a), 3, x.e3 - b), 5, x.e5 - c)

\* the digits of a limb
LimbDigits(d) == IF d >= 1000 THEN 4 ELSE IF d >= 100 THEN 3 ELSE IF d >= 10 THEN 2 ELSE 1

\* an estimate e of log10|x| in units of 10^-5, for x # 0, from 5-digit
\* logarithms of 2, 3 and 5 and the digit count of the mantissa:
\* e - 1000 < 10^5 * log10|x| < e + 101000 while the exponents stay below 1000
Log10Est(x) ==
    x.e2 * 30103 + x.e3 * 47712 + x.e5 * 69897
        + (4 * (Len(x.mag) - 1) + LimbDigits(x.mag[Len(x.mag)]) - 1) * 100000

\* -1, 0, 1 as |x| < |y|, |x| = |y|, |x| > |y|, for x, y # 0: by the estimates
\* when they are more than two decades apart, else by the mantissas in a
\* common unit
CmpAbs(x, y) ==
    LET d == Log10Est(x) - Log10Est(y)
    IN  IF d > 200000 THEN 1
        ELSE IF d < -200000 THEN -1
        ELSE LET a == Min2(x.e2, y.e2)
                 b == Min2(x.e3, y.e3)
                 c == Min2(x.e5, y.e5)
             IN  NatCmp(MagIn(x, a, b, c), MagIn(y, a, b, c))

\* -1, 0, 1 as x < y, x = y, x > y
Cmp(x, y) ==
    IF IsZero(x) /\ IsZero(y) THEN 0
    ELSE IF IsZero(x) THEN (IF y.neg THEN 1 ELSE -1)
    ELSE IF IsZero(y) THEN (IF x.neg THEN -1 ELSE 1)
    ELSE IF x.neg /\ ~y.neg THEN -1
    ELSE IF ~x.neg /\ y.neg THEN 1
    ELSE IF x.neg THEN -CmpAbs(x, y) ELSE CmpAbs(x, y)

Less(x, y) == Cmp(x, y) < 0

Leq(x, y) == Cmp(x, y) <= 0

Add(x, y) ==
    IF IsZero(x) THEN y
    ELSE IF IsZero(y) THEN x
    ELSE LET a == Min2(x.e2, y.e2)
             b == Min2(x.e3, y.e3)
             c == Min2(x.e5, y.e5)
             mx == MagIn(x, a, b, c)
             my == MagIn(y, a, b, c)
             o == NatCmp(mx, my)
         IN  IF x.neg = y.neg
             THEN Norm([neg |-> x.neg, mag |-> NatAdd(mx, my),
                        e2 |-> a, e3 |-> b, e5 |-> c])
             ELSE IF o = 0 THEN Zero
             ELSE IF o > 0
             THEN Norm([neg |-> x.neg, mag |-> NatSub(mx, my),
                        e2 |-> a, e3 |-> b, e5 |-> c])
             ELSE Norm([neg |-> y.neg, mag |-> NatSub(my, mx),
                        e2 |-> a, e3 |-> b, e5 |-> c])

Sub(x, y) == Add(x, Neg(y))

Mul(x, y) ==
    IF IsZero(x) \/ IsZero(y) THEN Zero
    ELSE [neg |-> x.neg # y.neg, mag |-> NatMul(x.mag, y.mag),
          e2 |-> x.e2 + y.e2, e3 |-> x.e3 + y.e3, e5 |-> x.e5 + y.e5]

IsUnit(u) == u.mag = <<1>> /\ ~u.neg

\* x / u, for u a positive product of powers of 2, 3 and 5 (every divisor of
\* the program is one: a scale, a tick period, 4, 2.0)
Div(x, u) ==
    IF IsZero(x) THEN Zero
    ELSE [x EXCEPT !.e2 = x.e2 - u.e2, !.e3 = x.e3 - u.e3, !.e5 = x.e5 - u.e5]

IsInteger(x) == x.e2 >= 0 /\ x.e3 >= 0 /\ x.e5 >= 0

Neg0(i) == IF i < 0 THEN -i ELSE 0

Pos0(i) == IF i > 0 THEN i ELSE 0

\* floor(x) (C's floor)
Floor(x) ==
    IF IsInteger(x) THEN x
    ELSE LET num == NatMulPow(NatMulPow(NatMulPow(x.mag, 2, Pos0(x.e2)),
                                        3, Pos0(x.e3)), 5, Pos0(x.e5))
             q == IF x.neg
                  THEN NatCeilDivPow(NatCeilDivPow(NatCeilDivPow(num,
                           2, Neg0(x.e2)), 3, Neg0(x.e3)), 5, Neg0(x.e5))
                  ELSE NatFloorDivPow(NatFloorDivPow(NatFloorDivPow(num,
                           2, Neg0(x.e2)), 3, Neg0(x.e3)), 5, Neg0(x.e5))
         IN  Norm([neg |-> x.neg, mag |-> q, e2 |-> 0, e3 |-> 0, e5 |-> 0])

\* ceil(x) (C's ceil)
Ceil(x) == Neg(Floor(Neg(x)))

\* round(x) (C's round: halves away from zero)
Round(x) ==
    IF x.neg THEN Neg(Floor(Add(Neg(x), Unit(-1, 0, 0))))
    ELSE Floor(Add(x, Unit(-1, 0, 0)))

\* (int)x for an integral x within int
ToInt(x) ==
    LET n == NatToInt(MagIn(x, 0, 0, 0)) IN IF x.neg THEN -n ELSE n


\* floor(log10(x)) for x > 0: the o with 10^o <= x < 10^(o+1), looked for
\* around the estimate and decided by exact comparison
FloorLog10(x) ==
    LET g == Log10Est(x) \div 100000
    IN  CHOOSE o \in (g - 1)..(g + 2) : Leq(Pow10(o), x) /\ Less(x, Pow10(o + 1))

\* a / b as C divides ints: truncated toward zero (b > 0)
TruncDiv(a, b) == IF a >= 0 THEN a \div b ELSE -((-a) \div b)

\* a % b as C takes remainders: the sign of a (b > 0)
CRem(a, b) == IF a >= 0 THEN a % b ELSE -((-a) % b)

(***************************************************************************)
(* IEEE 754 doubles: the numbers m * 2^e with m < 2^53.  An operation on   *)
(* doubles is the exact operation followed by rounding to the nearest      *)
(* double, halves to the even one.  Overflow and subnormals are out of     *)
(* reach of the values the viewport takes and are not modelled.            *)
(***************************************************************************)
\* the decimal digits of a natural number a # 0
NatDigits(a) == 4 * (Len(a) - 1) + LimbDigits(a[Len(a)])

RECURSIVE NatFixQ(_, _, _)
\* the largest q <= qhat with b * q <= cur
NatFixQ(b, cur, qhat) ==
    IF NatCmp(NatMulSmall(b, qhat), cur) > 0 THEN NatFixQ(b, cur, qhat - 1) ELSE qhat

RECURSIVE NatDivLoop(_, _, _, _, _)
\* long division of the limbs i..1 of a by b, r the remainder carried from
\* above and q the quotient's limbs found so far: the quotient's limbs and the
\* last remainder
NatDivLoop(a, b, i, r, q) ==
    IF i = 0 THEN [q |-> q, r |-> r]
    ELSE LET cur == NatStrip(<<a[i]>> \o r)
             n == Len(b)
             top == (IF Len(cur) > n THEN cur[n + 1] ELSE 0) * Limb + cur[n]
             d == IF NatCmp(cur, b) < 0 THEN 0
                  ELSE NatFixQ(b, cur, Min2(top \div b[n], Limb - 1))
         IN  IF d = 0 THEN NatDivLoop(a, b, i - 1, cur, <<0>> \o q)
             ELSE NatDivLoop(a, b, i - 1, NatSub(cur, NatMulSmall(b, d)),
                             <<d>> \o q)

\* floor(a / b) and whether a remainder is left, for b # 0: both are scaled
\* first so that the top limb of b estimates the quotient's limbs well
NatDivMod(a, b) ==
    LET f == Limb \div (b[Len(b)] + 1)
        af == NatMulSmall(a, f)
        res == NatDivLoop(af, NatMulSmall(b, f), Len(af), << >>, << >>)
    IN  [q |-> NatStrip(res.q), rem |-> res.r # << >>]

\* 2^53
Two53 == NatMulPow(<<1>>, 2, 53)

RECURSIVE RoundBits(_, _, _, _)
\* q halved k times until it has 53 bits, rb the last bit shifted out and st
\* whether anything was lost below it
RoundBits(q, k, rb, st) ==
    IF NatCmp(q, Two53) < 0 THEN [q |-> q, k |-> k, rb |-> rb, st |-> st]
    ELSE RoundBits(NatDivSmall(q, 2), k + 1, q[1] % 2, st \/ rb = 1)

\* a lower bound of log2 of a quotient n / d whose digit counts differ by dd
Log2Below(dd) == IF dd >= 1 THEN 3 * (dd - 1) ELSE 4 * (dd - 1)

\* b, the 53 bits with what was shifted out below them, rounded to the
\* nearest, halves to even: the double (-1)^neg * b.q * 2^(e + b.k)
RoundEven(neg, e, b) ==
    Norm([neg |-> neg,
          mag |-> IF b.rb = 1 /\ (b.st \/ b.q[1] % 2 = 1)
                  THEN NatAdd(b.q, <<1>>) ELSE b.q,
          e2 |-> e + b.k, e3 |-> 0, e5 |-> 0])

\* the double nearest to (-1)^neg * (qr.q + a fraction, if qr.rem) * 2^e, for
\* a quotient qr.q of 55 bits or more
RoundDiv(neg, e, qr) == RoundEven(neg, e, RoundBits(qr.q, 0, 0, qr.rem))

\* the double nearest to (-1)^neg * (n / d) * 2^e, for naturals n, d # 0: the
\* quotient of n * 2^s by d is taken, of 55 bits or more, then rounded to 53
RoundShift(neg, n, d, e, s) ==
    RoundDiv(neg, e - s, NatDivMod(NatMulPow(n, 2, s), NatMulPow(d, 2, -s)))

RoundQuot(neg, n, d, e) ==
    RoundShift(neg, n, d, e, 55 - Log2Below(NatDigits(n) - NatDigits(d)))

\* the numerator and the denominator of |x| / 2^x.e2
Numer(x) == NatMulPow(NatMulPow(x.mag, 3, x.e3), 5, x.e5)

Denom(x) == NatMulPow(NatMulPow(<<1>>, 3, -x.e3), 5, -x.e5)

\* x # 0 is a double
IsDouble(x) == x.e3 >= 0 /\ x.e5 >= 0 /\ NatCmp(Numer(x), Two53) < 0

\* the double nearest to x
RoundDouble(x) ==
    IF IsZero(x) \/ IsDouble(x) THEN x
    ELSE RoundQuot(x.neg, Numer(x), Denom(x), x.e2)

\* x + y, x - y, x * y of doubles
DAdd(x, y) == RoundDouble(Add(x, y))

DSub(x, y) == RoundDouble(Sub(x, y))

DMul(x, y) == RoundDouble(Mul(x, y))

\* x / y of doubles, y # 0
DDiv(x, y) ==
    IF IsZero(x) THEN Zero
    ELSE RoundQuot(x.neg # y.neg, Numer(x), Numer(y), x.e2 - y.e2)

(***************************************************************************)
(* Program constants (sigviewport.cpp:38-50, 186).                         *)
(***************************************************************************)
\* mutant of MaxScale: three more decades than the prefix table holds
MaxScaleTera == Pow10(12)

MaxScale == Pow10(9)

MinScale == Pow10(-15)

LabelMarginWidth == 70

MinorTickSubdivision == 4

ScaleUnits == <<1, 2, 5>>

SIPrefixes == <<"f", "p", "n", "u", "m", "", "k", "M", "G">>

FirstSIPrefixPower == -15

MinSpacing == 80

\* the constructor's _scale(1e-6)
InitScale == Pow10(-6)

\* the notch of a mouse wheel: wheelEvent divides delta by it
WheelNotch == 120

(***************************************************************************)
(* State.                                                                  *)
(***************************************************************************)
VARIABLES
    scale,              \* _scale: seconds per pixel
    offset,             \* _offset: the time at the left edge of the plot area
    mouse_down_point,   \* _mouse_down_point.x()
    mouse_down_offset,  \* _mouse_down_offset
    buttons,            \* the mouse buttons held (QMouseEvent::buttons())
    width,              \* QWidget::width()
    dirty,              \* update() was called and the repaint is pending
    pc,                 \* "idle", or the position in paint_ruler
    ruler,              \* the locals of paint_ruler
    ticks,              \* what paint_ruler has drawn, in drawing order
    press,              \* history: pointer pixel, offset and scale at the last press
    gesture,            \* the user's gesture: "free", or rolling the wheel "in"/"out"
    nev                 \* the number of input events so far

vars == <<scale, offset, mouse_down_point, mouse_down_offset, buttons, width,
          dirty, pc, ruler, ticks, press, gesture, nev>>

transform == <<scale, offset>>

mouse == <<mouse_down_point, mouse_down_offset, buttons, press>>

painter == <<pc, ruler, ticks>>

(***************************************************************************)
(* The axis transform.                                                     *)
(***************************************************************************)
\* the time under pixel `anchor` of the plot area
TimeAt(o, s, anchor) == Add(o, Mul(s, IntV(anchor)))

\* std::min, std::max
StdMin(a, b) == IF Less(b, a) THEN b ELSE a

StdMax(a, b) == IF Less(a, b) THEN b ELSE a

\* mutant of ZoomFactor: the sign of the exponent lost
ZoomFactorInverted(steps) == Unit(-steps, steps, 0)

\* pow(3.0/2.0, -steps), steps whole
ZoomFactor(steps) == Unit(steps, -steps, 0)

\* mutant of Clamp: no lower bound
ClampUpperOnly(s) == StdMin(s, MaxScale)

Clamp(s) == StdMax(StdMin(s, MaxScale), MinScale)

\* _scale after zoom(steps, .)
ZoomScale(s, steps) == Clamp(Mul(s, ZoomFactor(steps)))

\* mutant of ZoomOffset: the anchor's share is taken at the old scale
ZoomOffsetOldScale(o, s, s1, anchor) == Sub(TimeAt(o, s, anchor), Mul(s, IntV(anchor)))

\* _offset after zoom(steps, anchor), s1 the new scale
ZoomOffset(o, s, s1, anchor) == Sub(TimeAt(o, s, anchor), Mul(s1, IntV(anchor)))

\* void SigViewport::zoom(double steps, int offset)
zoom2(steps, anchor) ==
    /\ pc \in {"idle", "done"}
    /\ UNCHANGED <<mouse, width, painter>>
    /\ dirty' = TRUE
    /\ scale' = ZoomScale(scale, steps)
    /\ offset' = ZoomOffset(offset, scale, scale', anchor)

\* void SigViewport::zoom(double steps)
zoom(steps) == zoom2(steps, TruncDiv(width - LabelMarginWidth, 2))

\* void SigViewport::wheelEvent(QWheelEvent *event)
wheelEvent(delta, x) == zoom2(TruncDiv(delta, WheelNotch), x - LabelMarginWidth)

\* mutant of mousePressEvent: the offset at the press is not recorded
mousePressEventNoOffset(x, b) ==
    /\ pc \in {"idle", "done"}
    /\ b \notin buttons
    /\ mouse_down_point' = x
    /\ buttons' = buttons \cup {b}
    /\ press' = [x |-> x, offset |-> offset, scale |-> scale]
    /\ UNCHANGED <<transform, mouse_down_offset, width, dirty, painter>>

\* void SigViewport::mousePressEvent(QMouseEvent *event)
mousePressEvent(x, b) ==
    /\ pc \in {"idle", "done"}
    /\ b \notin buttons
    /\ mouse_down_point' = x
    /\ mouse_down_offset' = offset
    /\ buttons' = buttons \cup {b}
    /\ press' = [x |-> x, offset |-> offset, scale |-> scale]
    /\ UNCHANGED <<transform, width, dirty, painter>>

\* mutant of PanOffset: the drag direction reversed
PanOffsetReversed(mdo, mdp, x, s) == Add(mdo, Mul(IntV(x - mdp), s))

\* _offset after a move to x with the left button held
PanOffset(mdo, mdp, x, s) == Add(mdo, Mul(IntV(mdp - x), s))

\* void SigViewport::mouseMoveEvent(QMouseEvent *event)
mouseMoveEvent(x) ==
    /\ pc \in {"idle", "done"}
    /\ IF "Left" \in buttons
       THEN /\ offset' = PanOffset(mouse_down_offset, mouse_down_point, x, scale)
            /\ dirty' = TRUE
       ELSE UNCHANGED <<offset, dirty>>
    /\ UNCHANGED <<scale, mouse, width, painter>>

\* void SigViewport::mouseReleaseEvent(QMouseEvent *event)
mouseReleaseEvent(b) ==
    /\ pc \in {"idle", "done"}
    /\ b \in buttons
    /\ buttons' = buttons \ {b}
    /\ UNCHANGED <<transform, mouse_down_point, mouse_down_offset, press,
                   width, dirty, painter>>

\* void SigViewport::resizeGL(int width, int height)
resizeGL(w) ==
    /\ pc \in {"idle", "done"}
    /\ w # width
    /\ width' = w
    /\ UNCHANGED <<transform, mouse, dirty, painter>>

(***************************************************************************)
(* The ruler: void SigViewport::paint_ruler(QPainter &p), in double        *)
(* arithmetic: which ticks the loop draws, and when it leaves, is decided  *)
(* by comparisons of rounded values.                                       *)
(***************************************************************************)
\* the passes of the tick loop the model follows
MaxTicks == 24

\* min_period
MinPeriod(s) == DMul(s, IntV(MinSpacing))

\* order: (int)floorf(log10f(min_period)).  log10f rounds to 24 bits; no
\* min_period of the scales below is close enough to a power of ten for that
\* to change the floor
Order(min_period) == FloorLog10(min_period)

\* order_decimal: pow(10, order)
OrderDecimal(order) == RoundDouble(Pow10(order))

RECURSIVE TickLoop(_, _, _)
\* the do-while over ScaleUnits, entered with `unit`; the tick_period it leaves
TickLoop(min_period, order_decimal, unit) ==
    LET tick_period == DMul(order_decimal, IntV(ScaleUnits[unit + 1]))
    IN  IF Less(tick_period, min_period) /\ unit + 1 < Len(ScaleUnits)
        THEN TickLoop(min_period, order_decimal, unit + 1)
        ELSE tick_period

\* tick_period
TickPeriod(min_period, order_decimal) == TickLoop(min_period, order_decimal, 0)

\* prefix
PrefixOf(order) == TruncDiv(order - FirstSIPrefixPower, 3)

\* first_minor_division
FirstMinorDivision(o, minor_tick_period) == Ceil(DDiv(o, minor_tick_period))

\* first_major_division
FirstMajorDivision(o, tick_period) == Floor(DDiv(o, tick_period))

\* division, before the loop.  The two divisions are of the same rounded
\* quotient, scaled by 4, so the difference is one of 0..4 and the cast to int
\* is defined.
FirstDivision(first_minor_division, first_major_division) ==
    ToInt(Round(DSub(first_minor_division,
                     DMul(first_major_division, IntV(MinorTickSubdivision)))))

\* the locals before paint_ruler has run
NoRuler ==
    [order |-> 0, order_decimal |-> Zero, tick_period |-> Zero, prefix |-> 0,
     minor_tick_period |-> Zero, t0 |-> Zero, division |-> 0]

\* f, the floor of a number, or f + 1: as the fraction compares (c) with 1/2,
\* halves to even
TieToEven(f, c) ==
    IF c < 0 THEN f
    ELSE IF c > 0 THEN Add(f, IntV(1))
    ELSE IF IsZero(f) \/ f.e2 > 0 THEN f
    ELSE Add(f, IntV(1))

RoundFrom(x, f) == TieToEven(f, Cmp(Sub(x, f), Unit(-1, 0, 0)))

\* round to the nearest integer, halves to even
RoundHalfEven(x) == RoundFrom(x, Floor(x))

\* a > 0 rounded to a whole number of units q
RoundTo(a, q) == Mul(RoundHalfEven(Div(a, q)), q)

AbsV(x) == IF x.neg THEN Neg(x) ELSE x

\* a > 0 rounded to 6 significant digits
SixDigits(a) == RoundTo(a, Pow10(FloorLog10(a) - 5))

\* QTextStream << double: the number its text denotes, 6 significant digits
StreamDouble(v) ==
    IF IsZero(v) THEN Zero
    ELSE IF v.neg THEN Neg(SixDigits(AbsV(v)))
    ELSE SixDigits(v)

\* the text of a major tick: ts << (t / order_decimal) << SIPrefixes[prefix] << "s"
TickLabel(t, order_decimal, prefix) ==
    <<StreamDouble(DDiv(t, order_decimal)), SIPrefixes[prefix + 1], "s">>

\* paintEvent up to the loop of paint_ruler: the planning of the ticks and the
\* two assertions on prefix.  Each local is bound to its value in the order
\* of its declaration.
paintBegin ==
    /\ pc \in {"idle", "done"}
    /\ \E min_period \in {MinPeriod(scale)} :
       \E order \in {Order(min_period)} :
       \E order_decimal \in {OrderDecimal(order)} :
       \E tick_period \in {TickPeriod(min_period, order_decimal)} :
       \E prefix \in {PrefixOf(order)} :
       \E minor_tick_period \in {DDiv(tick_period, IntV(MinorTickSubdivision))} :
       \E first_major_division \in {FirstMajorDivision(offset, tick_period)} :
       \E first_minor_division \in {FirstMinorDivision(offset, minor_tick_period)} :
           /\ ruler' = [order |-> order,
                        order_decimal |-> order_decimal,
                        tick_period |-> tick_period,
                        prefix |-> prefix,
                        minor_tick_period |-> minor_tick_period,
                        t0 |-> DMul(first_major_division, tick_period),
                        division |-> FirstDivision(first_minor_division,
                                                   first_major_division)]
           /\ pc' = IF prefix >= 0 /\ prefix < Len(SIPrefixes)
                    THEN "loop" ELSE "assert_failed"
    /\ ticks' = << >>
    /\ dirty' = FALSE
    /\ UNCHANGED <<transform, mouse, width>>

\* t, in the loop
TickTime(r) == DAdd(r.t0, DMul(IntV(r.division), r.minor_tick_period))

\* x, in the loop
TickX(t, o, s) == DAdd(DDiv(DSub(t, o), s), IntV(LabelMarginWidth))

\* division++
NextDivision(d) == d + 1

\* one pass of the while(1) loop of paint_ruler; the model follows the loop
\* for MaxTicks passes
rulerLoop ==
    /\ pc = "loop"
    /\ \E t \in {TickTime(ruler)} :
       \E x \in {TickX(t, offset, scale)} :
           IF Leq(IntV(width), x)
           THEN /\ pc' = "done"
                /\ UNCHANGED <<ruler, ticks>>
           ELSE /\ Len(ticks) < MaxTicks
                /\ \E major \in {CRem(ruler.division, MinorTickSubdivision) = 0} :
                       ticks' = Append(ticks,
                           [t |-> t, x |-> x, major |-> major,
                            label |-> IF major
                                      THEN TickLabel(t, ruler.order_decimal,
                                                     ruler.prefix)
                                      ELSE << >>])
                /\ ruler' = [ruler EXCEPT !.division = NextDivision(ruler.division)]
                /\ UNCHANGED pc
    /\ UNCHANGED <<transform, mouse, width, dirty>>

(***************************************************************************)
(* The viewport under input events, from its construction.                 *)
(***************************************************************************)
MaxEvents == 3

\* pointer columns: at the plot's left edge, and in the plot
Xs == {70, 110}

Buttons == {"Left", "Right"}

\* wheel deltas: less than a notch, one notch, and enough notches for either bound
Deltas == {-16800, -120, 60, 120, 16800}

\* steps of the zoom buttons
ZoomSteps == {-1, 1}

Widths == {0, 150}

\* _mouse_down_offset is not initialised by the constructor
UninitDoubles == {Zero, IntV(-1)}

\* SigViewport::SigViewport
Init ==
    /\ scale = InitScale
    /\ offset = Zero
    /\ mouse_down_point = 0
    /\ mouse_down_offset \in UninitDoubles
    /\ buttons = {}
    /\ width \in Widths
    /\ dirty = FALSE
    /\ pc = "idle"
    /\ ruler = NoRuler
    /\ ticks = << >>
    /\ press = [x |-> 0, offset |-> Zero, scale |-> InitScale]
    /\ gesture = "free"
    /\ nev = 0

\* an input event, counted
Counted ==
    /\ nev < MaxEvents
    /\ nev' = nev + 1
    /\ UNCHANGED gesture

Press == Counted /\ \E x \in Xs, b \in Buttons : mousePressEvent(x, b)

Move == Counted /\ \E x \in Xs : mouseMoveEvent(x)

Release == Counted /\ \E b \in Buttons : mouseReleaseEvent(b)

Wheel == Counted /\ \E d \in Deltas, x \in Xs : wheelEvent(d, x)

ZoomButton == Counted /\ \E st \in ZoomSteps : zoom(st)

Resize == Counted /\ \E w \in Widths : resizeGL(w)

Next == Press \/ Move \/ Release \/ Wheel \/ ZoomButton \/ Resize

Spec == Init /\ [][Next]_vars

(***************************************************************************)
(* The ruler painted over the transforms the viewport can be in.  The      *)
(* scale of a start state is the double nearest the scale k wheel notches  *)
(* from the constructor's; its offset is that of a drag of j pixels, made  *)
(* either at that scale or at MaxScale, before the wheel (at the plot's    *)
(* left edge: anchor 0, which leaves the offset) brought the scale back.   *)
(***************************************************************************)
ZoomInMax == 53

ZoomOutMax == 95

\* pixels dragged
PanPixels == {-7, 0, 3, 1000}

RulerWidths == {0, 150, 230}

InitRuler ==
    /\ \E k \in (-ZoomOutMax)..ZoomInMax :
           scale = RoundDouble(ZoomScale(InitScale, k))
    /\ \E j \in PanPixels, u \in {scale, MaxScale} :
           /\ offset = DMul(IntV(j), u)
           /\ mouse_down_point = 110
           /\ mouse_down_offset = Zero
           /\ press = [x |-> 110, offset |-> Zero, scale |-> u]
    /\ buttons = {"Left"}
    /\ width \in RulerWidths
    /\ dirty = TRUE
    /\ pc = "idle"
    /\ ruler = NoRuler
    /\ ticks = << >>
    /\ gesture = "free"
    /\ nev = 0

PaintBegin == paintBegin /\ UNCHANGED <<gesture, nev>>

RulerLoop == rulerLoop /\ UNCHANGED <<gesture, nev>>

NextRuler == PaintBegin \/ RulerLoop

SpecRuler == InitRuler /\ [][NextRuler]_vars

(***************************************************************************)
(* The wheel rolled one way, again and again, with the pointer at rest.    *)
(***************************************************************************)
RollDeltas == {-240, -120, 120, 240}

RollXs == {110}

InitZoom ==
    /\ scale \in {InitScale, MinScale, MaxScale}
    /\ offset = Zero
    /\ mouse_down_point = 0
    /\ mouse_down_offset = Zero
    /\ buttons = {}
    /\ width = 150
    /\ dirty = FALSE
    /\ pc = "idle"
    /\ ruler = NoRuler
    /\ ticks = << >>
    /\ press = [x |-> 0, offset |-> Zero, scale |-> InitScale]
    /\ gesture \in {"in", "out"}
    /\ nev = 0

RollIn ==
    /\ gesture = "in"
    /\ \E d \in RollDeltas, x \in RollXs :
           TruncDiv(d, WheelNotch) > 0 /\ wheelEvent(d, x)
    /\ UNCHANGED <<gesture, nev>>

RollOut ==
    /\ gesture = "out"
    /\ \E d \in RollDeltas, x \in RollXs :
           TruncDiv(d, WheelNotch) < 0 /\ wheelEvent(d, x)
    /\ UNCHANGED <<gesture, nev>>

NextZoom == RollIn \/ RollOut

\* a further roll inwards still changes the scale
CanRollIn ==
    /\ gesture = "in"
    /\ \E d \in RollDeltas :
           /\ TruncDiv(d, WheelNotch) > 0
           /\ ZoomScale(scale, TruncDiv(d, WheelNotch)) # scale

\* a further roll outwards still changes the scale
CanRollOut ==
    /\ gesture = "out"
    /\ \E d \in RollDeltas :
           /\ TruncDiv(d, WheelNotch) < 0
           /\ ZoomScale(scale, TruncDiv(d, WheelNotch)) # scale

\* The user keeps rolling the wheel while rolling changes the scale: the weak
\* fairness WF_vars(RollIn) /\ WF_vars(RollOut) of the two gestures, with the
\* enabling condition of a changing step written out as CanRollIn, CanRollOut.
SpecZoom ==
    /\ InitZoom /\ [][NextZoom]_vars
    /\ ([]<>(~CanRollIn) \/ []<><<RollIn>>_vars)
    /\ ([]<>(~CanRollOut) \/ []<><<RollOut>>_vars)

(***************************************************************************)
(* The claims.                                                             *)
(***************************************************************************)
\* the anchors and steps zoom(steps, anchor) is called with
Anchors ==
    {x - LabelMarginWidth : x \in Xs}
        \cup {TruncDiv(w - LabelMarginWidth, 2) : w \in Widths}

Steps == {TruncDiv(d, WheelNotch) : d \in Deltas} \cup ZoomSteps

\* C1: zoom(steps, anchorPixel) preserves the time under the anchor pixel,
\* offset' + scale' * anchorPixel = offset + scale * anchorPixel, also when
\* the new scale was clamped to MinScale or MaxScale.
C1_ZoomKeepsAnchorTime ==
    [][\A st \in Steps :
           scale' = ZoomScale(scale, st) =>
               \A a \in Anchors :
                   zoom2(st, a) =>
                       TimeAt(offset', scale', a) = TimeAt(offset, scale, a)]_vars

\* one event, which clamped the scale to MinScale and moved the offset: a wheel
\* event of more notches than fit, away from the plot's left edge
C1_Witness == nev = 1 /\ scale = MinScale /\ ~IsZero(offset)

\* C2: in every state reachable from the constructor's transform by zoom calls,
\* wheel events, presses, moves and releases, scale lies in
\* [MinScale, MaxScale] and is strictly positive.
C2_ScaleInRange ==
    /\ Leq(MinScale, scale)
    /\ Leq(scale, MaxScale)
    /\ Less(Zero, scale)

\* a wheel event asked for more than MaxScale and was clamped
C2_Witness == nev = 1 /\ scale = MaxScale

\* C6: a pointer move with the left button held sets offset to
\* offsetAtPress + (pressX - currentX) * scale, from the values of the most
\* recent press and the scale current at the move; the move leaves scale
\* unchanged, and a move without the left button changes neither.
C6_MovePans ==
    [][\A x \in Xs :
           mouseMoveEvent(x) =>
               /\ scale' = scale
               /\ offset' = IF "Left" \in buttons
                            THEN Add(press.offset, Mul(IntV(press.x - x), scale))
                            ELSE offset]_vars

\* a press of the left button and a move to another column, at the first scale
C6_Witness ==
    /\ nev = 2
    /\ "Left" \in buttons
    /\ scale = InitScale
    /\ ~IsZero(offset)

\* the time under the pressed pixel at the moment of the press
PressTime == TimeAt(press.offset, press.scale, press.x - LabelMarginWidth)

\* C9 as stated: after each move to pixel p with the left button held, the
\* time under p equals the time that was under the pressed pixel at the press,
\* whatever wheel events came between.
C9_GrabbedPointFollows ==
    [][\A x \in Xs :
           (mouseMoveEvent(x) /\ "Left" \in buttons) =>
               TimeAt(offset', scale', x - LabelMarginWidth) = PressTime]_vars

\* C9 amended: the same, when the scale at the move is the scale at the press.
C9_GrabbedPointFollowsAtPressScale ==
    [][\A x \in Xs :
           (mouseMoveEvent(x) /\ "Left" \in buttons /\ scale = press.scale) =>
               TimeAt(offset', scale', x - LabelMarginWidth) = PressTime]_vars

\* a zoom, a press of the left button, and a move that panned at that scale
C9_Witness ==
    /\ nev = 3
    /\ "Left" \in buttons
    /\ scale = press.scale
    /\ scale # InitScale
    /\ offset # press.offset

\* C3: zooming in again and again drives scale, after finitely many calls, to
\* exactly MinScale, where every further zoom-in leaves it; zooming out again
\* and again drives it to exactly MaxScale, where it stays.
C3_RepeatedZoomReachesBound ==
    /\ (gesture = "in") => <>[](scale = MinScale)
    /\ (gesture = "out") => <>[](scale = MaxScale)

\* rolled in from a larger scale down to MinScale (the offset moved on the way)
C3_Witness == gesture = "in" /\ scale = MinScale /\ ~IsZero(offset)

\* paint_ruler has planned its ticks
Planned == pc \in {"loop", "done"}

\* C4 as stated: the major tick period chosen by paint_ruler is at least
\* MinSpacing (80) pixels wide, tick_period / scale >= 80, that is
\* tick_period >= scale * 80.
C4_MajorTicksMinSpacing ==
    Planned => Leq(Mul(IntV(MinSpacing), scale), ruler.tick_period)

\* C5: for every scale the viewport can reach, the SI-prefix index
\* (order - FirstSIPrefixPower) / 3 lies in 0..8: neither assertion on it fails.
C5_PrefixInTable ==
    /\ pc # "assert_failed"
    /\ Planned => ruler.prefix \in 0..(Len(SIPrefixes) - 1)

\* the ruler painted at MaxScale, with the last prefix of the table
C5_Witness == pc = "done" /\ scale = MaxScale /\ ruler.prefix = Len(SIPrefixes) - 1

\* the ticks a viewport of this width has room for: they start at the plot's
\* left edge, pixel LabelMarginWidth, and minor ticks are 10 pixels or more apart
TickRoom ==
    IF width > LabelMarginWidth THEN (width - LabelMarginWidth) \div 10 + 1 ELSE 0

\* C7 as stated: the tick loop of paint_ruler terminates (it makes no more
\* passes than the viewport has room for ticks), and with a viewport width
\* <= 0 it draws no tick at all.
C7_LoopEndsAndEmptyViewport ==
    Planned =>
        /\ Len(ticks) <= TickRoom
        /\ width <= 0 => ticks = << >>

\* the power of ten an SI prefix of the table stands for
PrefixPower(p) ==
    LET i == CHOOSE j \in 1..Len(SIPrefixes) : SIPrefixes[j] = p
    IN  FirstSIPrefixPower + 3 * (i - 1)

\* C8 as stated: the label of every major tick denotes the tick's time: its
\* numeral times the power of ten of its SI prefix equals t, to the six
\* digits a label has.
C8_LabelDenotesTime ==
    \A i \in 1..Len(ticks) :
        ticks[i].major =>
            LET denoted == Mul(ticks[i].label[1],
                               Pow10(PrefixPower(ticks[i].label[2])))
            IN  Leq(Mul(AbsV(Sub(denoted, ticks[i].t)), Pow10(5)),
                    AbsV(ticks[i].t))

\* floor(x / y) in the reals, for doubles x and y > 0
FloorQuot(x, y) ==
    IF IsZero(x) THEN Zero
    ELSE LET e == x.e2 - y.e2
             qr == NatDivMod(NatMulPow(Numer(x), 2, e),
                             NatMulPow(Numer(y), 2, -e))
         IN  Norm([neg |-> x.neg,
                   mag |-> IF x.neg /\ qr.rem THEN NatAdd(qr.q, <<1>>) ELSE qr.q,
                   e2 |-> 0, e3 |-> 0, e5 |-> 0])

\* ceil(x / y) in the reals
CeilQuot(x, y) == Neg(FloorQuot(Neg(x), y))

\* minorPeriod = majorPeriod / 4
MinorPeriod == Div(ruler.tick_period, IntV(MinorTickSubdivision))

\* the pixel (t - offset) / scale + LabelMarginWidth of time t is left of
\* pixel px
LeftOf(t, px) == Less(Sub(t, offset), Mul(IntV(px - LabelMarginWidth), scale))

\* the ticks drawn so far are the multiples k1, k1 + 1, ... of MinorPeriod,
\* each drawn within a pixel of its multiple and major exactly when its index
\* is a multiple of 4; none is right of the viewport's right edge, and when
\* the loop has left, the next multiple is not left of that edge
TicksFrom(k1) ==
    /\ \A i \in 1..Len(ticks) :
           LET k == Add(k1, IntV(i - 1))
           IN  /\ Less(AbsV(Sub(ticks[i].t, Mul(k, MinorPeriod))), scale)
               /\ LeftOf(Mul(k, MinorPeriod), width + 1)
               /\ ticks[i].major = IsInteger(Div(k, IntV(MinorTickSubdivision)))
    /\ pc = "done" =>
           ~LeftOf(Mul(Add(k1, IntV(Len(ticks))), MinorPeriod), width - 1)

\* the least k with k * MinorPeriod >= offset, the left edge taken a pixel
\* further left, and a pixel further right
FirstIndices ==
    {CeilQuot(Sub(offset, scale), MinorPeriod),
     CeilQuot(Add(offset, scale), MinorPeriod)}

\* C10 as stated: the ticks drawn are exactly the multiples k * minorPeriod
\* with k * minorPeriod >= offset and pixel < width, once each and in
\* increasing order, and a tick is major exactly when k is a multiple of 4.
\* Times are compared at the resolution of the drawing: a tick is drawn within
\* a pixel of its multiple, and the two edges are taken to within a pixel.
C10_TicksAreTheVisibleMultiples ==
    Planned => \E k1 \in FirstIndices : TicksFrom(k1)

=============================================================================
